---- MODULE Spec2Model ----
(***************************************************************************)
(* The value-trait protocol (src/src/lib.rs): the traits ValueAccess,      *)
(* Value and Mutable over an abstract JSON-like value.  The provided       *)
(* (default) trait methods are translated from the source; the required    *)
(* methods (as_i64, as_u64, as_f64, as_bool, as_str, as_array, as_object,  *)
(* as_array_mut, as_object_mut) are answered by the backend and are part   *)
(* of the state.                                                           *)
(***************************************************************************)
EXTENDS Integers, Sequences, FiniteSets, TLC

VARIABLES value, hist, usize_bits

vars == <<value, hist, usize_bits>>

\* ------------------------------------------------------------------------
\* Option<T> and Result<T, AccessError>

None == <<>>

Some(x) == <<x>>

is_some(o) == o # None

unwrap(o) == o[1]

\* Option::and_then
and_then(o, F(_)) == IF o = None THEN None ELSE F(unwrap(o))

\* Option::map
map(o, F(_)) == IF o = None THEN None ELSE Some(F(unwrap(o)))

Ok(x) == [ok |-> x]

Err(e) == [err |-> e]

\* Result::ok().flatten() on a Result<Option<T>, E>
ok_flatten(r) == IF "ok" \in DOMAIN r THEN r.ok ELSE None

\* enum AccessError
NotAnObject == "NotAnObject"

NotAnArray == "NotAnArray"

\* the unit value ()
Unit == "()"

\* ------------------------------------------------------------------------
\* Integers of 64 and 128 bits do not fit TLC's 32-bit integers: an integer is a sign and a magnitude, the magnitude a sequence of bits,
\* least significant first, without leading zeros (zero is <<>>, not negative).

Bits(n) == [neg |-> FALSE, mag |-> n]

Neg(n) == [neg |-> TRUE, mag |-> n]

\* 2^k - 1
Ones(k) == [i \in 1..k |-> 1]

\* 2^k
Pow2(k) == [i \in 1..(k + 1) |-> IF i = k + 1 THEN 1 ELSE 0]

\* 2^k + 1, k >= 1
Pow2Plus1(k) == [i \in 1..(k + 1) |-> IF i = 1 \/ i = k + 1 THEN 1 ELSE 0]

RECURSIVE NatBits(_)
NatBits(n) == IF n = 0 THEN <<>> ELSE <<n % 2>> \o NatBits(n \div 2)

\* the highest position of a set of positions
Highest(P) == CHOOSE p \in P : \A q \in P : q <= p

\* the lowest position of a set of positions
Lowest(P) == CHOOSE p \in P : \A q \in P : p <= q

\* magnitudes: a < b
MagLt(a, b) ==
  IF Len(a) # Len(b) THEN Len(a) < Len(b)
  ELSE LET differ == {p \in 1..Len(a) : a[p] # b[p]}
       IN  differ # {} /\ a[Highest(differ)] < b[Highest(differ)]

\* strip the leading zeros of a bit sequence
Canon(a) ==
  LET ones == {p \in 1..Len(a) : a[p] = 1}
  IN  IF ones = {} THEN <<>> ELSE SubSeq(a, 1, Highest(ones))

\* signed comparison x <= y
NumLe(x, y) ==
  IF x.neg /\ ~y.neg THEN TRUE
  ELSE IF ~x.neg /\ y.neg THEN FALSE
  ELSE IF x.neg THEN ~MagLt(x.mag, y.mag)
  ELSE ~MagLt(y.mag, x.mag)

\* ------------------------------------------------------------------------
\* The primitive integer types: width and signedness, MIN and MAX.

IntTypes == {"i8", "i16", "i32", "i64", "i128", "u8", "u16", "u32", "u64", "u128", "usize"}

Signed(ty) == ty \in {"i8", "i16", "i32", "i64", "i128"}

Width(ty) ==
  CASE ty \in {"i8", "u8"} -> 8
    [] ty \in {"i16", "u16"} -> 16
    [] ty \in {"i32", "u32"} -> 32
    [] ty \in {"i64", "u64"} -> 64
    [] ty \in {"i128", "u128"} -> 128
    [] ty = "usize" -> usize_bits

MinOf(ty) == IF Signed(ty) THEN Neg(Pow2(Width(ty) - 1)) ELSE Bits(<<>>)

MaxOf(ty) == IF Signed(ty) THEN Bits(Ones(Width(ty) - 1)) ELSE Bits(Ones(Width(ty)))

\* a + 1
Inc(a) ==
  LET zeros == {p \in 1..Len(a) : a[p] = 0}
  IN  IF zeros = {} THEN [p \in 1..(Len(a) + 1) |-> IF p = Len(a) + 1 THEN 1 ELSE 0]
      ELSE [p \in 1..Len(a) |->
              IF p < Lowest(zeros) THEN 0 ELSE IF p = Lowest(zeros) THEN 1 ELSE a[p]]

\* the low w bits of n in two's complement
TwosComplement(n, w) ==
  LET padded == [i \in 1..w |-> IF i <= Len(n.mag) THEN n.mag[i] ELSE 0]
      flipped == [i \in 1..w |-> 1 - padded[i]]
  IN  IF n.neg THEN SubSeq(Inc(flipped), 1, w) ELSE padded

\* the number that w bits stand for
FromTwosComplement(bits, w, signed) ==
  IF signed /\ bits[w] = 1
  THEN Neg(Canon(Inc([i \in 1..w |-> 1 - bits[i]])))
  ELSE Bits(Canon(bits))

\* the wrapping cast `n as ty`, which never fails
WrappingCast(n, ty) ==
  Some(FromTwosComplement(TwosComplement(n, Width(ty)), Width(ty), Signed(ty)))

\* TryFrom between integer types (core::convert::TryInto, used as
\* `u.try_into().ok()`): the same number when it lies in MIN..=MAX of the
\* target type, and no number otherwise.
TryInto(n, ty) ==
  IF NumLe(MinOf(ty), n) /\ NumLe(n, MaxOf(ty)) THEN Some(n) ELSE None

\* ------------------------------------------------------------------------
\* f64: a finite float is (-1)^neg * m * 2^e with m an odd magnitude of at
\* most 53 bits (or zero); NaN and the infinities are classes of their own.

Mantissa == 53

Float(neg, m, e) == [cls |-> "fin", neg |-> neg, m |-> m, e |-> e]

NaN == [cls |-> "nan", neg |-> FALSE, m |-> <<>>, e |-> 0]

Infinity == [cls |-> "inf", neg |-> FALSE, m |-> <<>>, e |-> 0]

\* drop the trailing zero bits of m into the exponent
Normal(neg, m, e) ==
  LET ones == {p \in 1..Len(m) : m[p] = 1}
  IN  IF ones = {} THEN Float(neg, <<>>, 0)
      ELSE Float(neg, SubSeq(m, Lowest(ones), Len(m)), e + Lowest(ones) - 1)

\* the cast `n as f64` of an integer: exact up to 53 significant bits, rounded
\* to the nearest float, ties to even, beyond
IntToF64(n) ==
  LET L == Len(n.mag)
      shift == L - Mantissa
  IN  IF shift <= 0 THEN Normal(n.neg, n.mag, 0)
      ELSE LET kept == SubSeq(n.mag, shift + 1, L)
               guard == n.mag[shift]
               sticky == \E i \in 1..(shift - 1) : n.mag[i] = 1
               up == guard = 1 /\ (sticky \/ kept[1] = 1)
           IN  Normal(n.neg, IF up THEN Inc(kept) ELSE kept, shift)

\* ------------------------------------------------------------------------
\* A value as its backend answers for it: value_type, and the seven primitive
\* extractors.  An array holds a sequence of values, an object a map from
\* keys to values.

Blank ==
  [t |-> "Null", b |-> None, i |-> None, u |-> None, f |-> None, s |-> None,
   arr |-> None, obj |-> None]

NullV == Blank

BoolV(x) == [Blank EXCEPT !.t = "Bool", !.b = Some(x)]

\* a stored signed integer; a backend may also answer as_u64 when it fits
I64V(n, cross) ==
  [Blank EXCEPT !.t = "I64", !.i = Some(n),
                !.u = IF cross /\ ~n.neg THEN Some(n) ELSE None]

\* a stored unsigned integer; a backend may also answer as_i64 when it fits
U64V(n, cross) ==
  [Blank EXCEPT !.t = "U64", !.u = Some(n),
                !.i = IF cross /\ Len(n.mag) < 64 THEN Some(n) ELSE None]

F64V(x) == [Blank EXCEPT !.t = "F64", !.f = Some(x)]

StrV(x) == [Blank EXCEPT !.t = "String", !.s = Some(x)]

ArrayV(a) == [Blank EXCEPT !.t = "Array", !.arr = Some(a)]

ObjectV(o) == [Blank EXCEPT !.t = "Object", !.obj = Some(o)]

\* the required methods of ValueAccess, Value and Mutable
value_type(self) == self.t

as_bool(self) == self.b

as_i64(self) == self.i

as_u64(self) == self.u

as_f64(self) == self.f

as_str(self) == self.s

as_array(self) == self.arr

as_object(self) == self.obj

as_array_mut(self) == self.arr

as_object_mut(self) == self.obj

\* ------------------------------------------------------------------------
\* The Array and Object contracts (Vec and HashMap semantics).  Indices
\* count from 0.

ArrayGet(a, i) == IF i < Len(a) THEN Some(a[i + 1]) ELSE None

ArrayPush(a, v) == Append(a, v)

ArrayPop(a) ==
  IF a = <<>> THEN [arr |-> a, ret |-> None]
  ELSE [arr |-> SubSeq(a, 1, Len(a) - 1), ret |-> Some(a[Len(a)])]

ObjectGet(o, k) == IF k \in DOMAIN o THEN Some(o[k]) ELSE None

ObjectInsert(o, k, v) ==
  [obj |-> [x \in DOMAIN o \cup {k} |-> IF x = k THEN v ELSE o[x]],
   ret |-> IF k \in DOMAIN o THEN Some(o[k]) ELSE None]

ObjectRemove(o, k) ==
  [obj |-> [x \in DOMAIN o \ {k} |-> o[x]],
   ret |-> IF k \in DOMAIN o THEN Some(o[k]) ELSE None]

\* ------------------------------------------------------------------------
\* trait ValueAccess: the provided methods

get(self, k) == and_then(as_object(self), LAMBDA a : ObjectGet(a, k))

contains_key(self, k) == is_some(and_then(as_object(self), LAMBDA a : ObjectGet(a, k)))

get_idx(self, i) == and_then(as_array(self), LAMBDA a : ArrayGet(a, i))

as_i128(self) == and_then(as_i64(self), LAMBDA u : TryInto(u, "i128"))

as_i32(self) == and_then(as_i64(self), LAMBDA u : TryInto(u, "i32"))

as_i16(self) == and_then(as_i64(self), LAMBDA u : TryInto(u, "i16"))

as_i8(self) == and_then(as_i64(self), LAMBDA u : TryInto(u, "i8"))

\* as_u128 taken from the signed primitive
as_u128_of_signed(self) == and_then(as_i64(self), LAMBDA u : TryInto(u, "u128"))

as_u128(self) == and_then(as_u64(self), LAMBDA u : TryInto(u, "u128"))

as_usize(self) == and_then(as_u64(self), LAMBDA u : TryInto(u, "usize"))

as_u32(self) == and_then(as_u64(self), LAMBDA u : TryInto(u, "u32"))

as_u16(self) == and_then(as_u64(self), LAMBDA u : TryInto(u, "u16"))

as_u8(self) == and_then(as_u64(self), LAMBDA u : TryInto(u, "u8"))

\* cast_f64 without its unsigned branch
cast_f64_signed_only(self) ==
  IF is_some(as_f64(self)) THEN Some(unwrap(as_f64(self)))
  ELSE map(as_i128(self), LAMBDA i : IntToF64(i))

cast_f64(self) ==
  IF is_some(as_f64(self)) THEN Some(unwrap(as_f64(self)))
  ELSE IF is_some(as_u128(self)) THEN Some(IntToF64(unwrap(as_u128(self))))
  ELSE map(as_i128(self), LAMBDA i : IntToF64(i))

\* the magnitude of a finite float below that of another, both brought to the
\* lower of the two exponents
FMagLt(x, y) ==
  IF x.cls = "inf" THEN FALSE
  ELSE IF y.cls = "inf" THEN TRUE
  ELSE LET low == IF x.e < y.e THEN x.e ELSE y.e
           shifted(z) == IF z.m = <<>> THEN <<>> ELSE [n \in 1..(z.e - low) |-> 0] \o z.m
       IN  MagLt(shifted(x), shifted(y))

\* the comparison x <= y of two f64: false when either is NaN, and -0.0 = 0.0
FloatLe(x, y) ==
  IF x.cls = "nan" \/ y.cls = "nan" THEN FALSE
  ELSE IF x.neg /\ ~y.neg THEN TRUE
  ELSE IF ~x.neg /\ y.neg
    THEN x.cls = "fin" /\ y.cls = "fin" /\ x.m = <<>> /\ y.m = <<>>
  ELSE IF x.neg THEN ~FMagLt(x, y)
  ELSE ~FMagLt(y, x)

\* std::f32::MAX = (2^24 - 1) * 2^104, and std::f32::MIN = -MAX, as f64
F32Max == Float(FALSE, Ones(24), 104)

F32Min == Float(TRUE, Ones(24), 104)

\* m without its d lowest bits, rounded to the nearest, ties to even
RoundDrop(m, d) ==
  LET kept == IF d < Len(m) THEN SubSeq(m, d + 1, Len(m)) ELSE <<>>
      guard == IF d <= Len(m) THEN m[d] ELSE 0
      sticky == \E n \in 1..(d - 1) : n <= Len(m) /\ m[n] = 1
      odd == kept # <<>> /\ kept[1] = 1
  IN  IF guard = 1 /\ (sticky \/ odd) THEN Inc(kept) ELSE kept

\* the cast `u as f32` of an f64 within f32's range: 24 significant bits, and
\* no bit below 2^-149
F64ToF32(x) ==
  IF x.cls # "fin" \/ x.m = <<>> THEN x
  ELSE LET top == x.e + Len(x.m) - 1
           quantum == IF top - 23 > -149 THEN top - 23 ELSE -149
           d == quantum - x.e
       IN  IF d <= 0 THEN x ELSE Normal(x.neg, RoundDrop(x.m, d), quantum)

as_f32(self) ==
  and_then(as_f64(self),
           LAMBDA u : IF FloatLe(u, F32Max) /\ FloatLe(F32Min, u)
                      THEN Some(F64ToF32(u))
                      ELSE None)

\* the keyed forms: the element under the key, then the extractor

get_bool(self, k) == and_then(get(self, k), LAMBDA x : as_bool(x))

get_i128(self, k) == and_then(get(self, k), LAMBDA x : as_i128(x))

get_i64(self, k) == and_then(get(self, k), LAMBDA x : as_i64(x))

\* get_i32 that applies the 64-bit extractor
get_i32_unnarrowed(self, k) == and_then(get(self, k), LAMBDA x : as_i64(x))

get_i32(self, k) == and_then(get(self, k), LAMBDA x : as_i32(x))

get_i16(self, k) == and_then(get(self, k), LAMBDA x : as_i16(x))

get_i8(self, k) == and_then(get(self, k), LAMBDA x : as_i8(x))

get_u128(self, k) == and_then(get(self, k), LAMBDA x : as_u128(x))

get_u64(self, k) == and_then(get(self, k), LAMBDA x : as_u64(x))

get_usize(self, k) == and_then(get(self, k), LAMBDA x : as_usize(x))

get_u32(self, k) == and_then(get(self, k), LAMBDA x : as_u32(x))

get_u16(self, k) == and_then(get(self, k), LAMBDA x : as_u16(x))

get_u8(self, k) == and_then(get(self, k), LAMBDA x : as_u8(x))

get_f64(self, k) == and_then(get(self, k), LAMBDA x : as_f64(x))

get_f32(self, k) == and_then(get(self, k), LAMBDA x : as_f32(x))

get_str(self, k) == and_then(get(self, k), LAMBDA x : as_str(x))

get_array(self, k) == and_then(get(self, k), LAMBDA x : as_array(x))

get_object(self, k) == and_then(get(self, k), LAMBDA x : as_object(x))

\* ------------------------------------------------------------------------
\* trait Value: the provided predicates

is_i128(self) == is_some(as_i128(self))

is_i64(self) == is_some(as_i64(self))

is_u128(self) == is_some(as_u128(self))

is_u64(self) == is_some(as_u64(self))

is_f64(self) == is_some(as_f64(self))

is_float(self) == is_f64(self)

\* is_integer that asks the signed form only
is_integer_signed_only(self) == is_i128(self)

is_integer(self) == is_i128(self) \/ is_u128(self)

is_number(self) == is_float(self) \/ is_integer(self)

is_f64_castable(self) == is_some(cast_f64(self))

is_array(self) == is_some(as_array(self))

is_object(self) == is_some(as_object(self))

\* ------------------------------------------------------------------------
\* trait Mutable: a method on `&mut self` yields the value afterwards and
\* what it returned.

\* insert that turns a value of another shape into an object
insert_vivify(self, k, v) ==
  LET o == IF as_object_mut(self) = None THEN <<>> ELSE unwrap(as_object_mut(self))
      r == ObjectInsert(o, k, v)
  IN  [self |-> [self EXCEPT !.obj = Some(r.obj)], ret |-> Ok(r.ret)]

\* insert that keeps the entry a key already has
insert_if_absent(self, k, v) ==
  IF as_object_mut(self) = None THEN [self |-> self, ret |-> Err(NotAnObject)]
  ELSE LET o == unwrap(as_object_mut(self))
       IN  IF k \in DOMAIN o THEN [self |-> self, ret |-> Ok(Some(o[k]))]
           ELSE [self |-> [self EXCEPT !.obj = Some(ObjectInsert(o, k, v).obj)],
                 ret |-> Ok(None)]

insert(self, k, v) ==
  IF as_object_mut(self) = None THEN [self |-> self, ret |-> Err(NotAnObject)]
  ELSE LET r == ObjectInsert(unwrap(as_object_mut(self)), k, v)
       IN  [self |-> [self EXCEPT !.obj = Some(r.obj)], ret |-> Ok(r.ret)]

\* try_insert written like try_push: the result of insert is dropped
try_insert_discarding(self, k, v) ==
  LET r == insert(self, k, v) IN [self |-> r.self, ret |-> None]

try_insert(self, k, v) ==
  LET r == insert(self, k, v) IN [self |-> r.self, ret |-> ok_flatten(r.ret)]

\* remove that hands the entry out and keeps it
remove_keeps(self, k) ==
  IF as_object_mut(self) = None THEN [self |-> self, ret |-> Err(NotAnObject)]
  ELSE [self |-> self, ret |-> Ok(ObjectGet(unwrap(as_object_mut(self)), k))]

remove(self, k) ==
  IF as_object_mut(self) = None THEN [self |-> self, ret |-> Err(NotAnObject)]
  ELSE LET r == ObjectRemove(unwrap(as_object_mut(self)), k)
       IN  [self |-> [self EXCEPT !.obj = Some(r.obj)], ret |-> Ok(r.ret)]

try_remove(self, k) ==
  LET r == remove(self, k) IN [self |-> r.self, ret |-> ok_flatten(r.ret)]

\* push that reports the other variant of AccessError
push_wrong_error(self, v) ==
  IF as_array_mut(self) = None THEN [self |-> self, ret |-> Err(NotAnObject)]
  ELSE [self |-> [self EXCEPT !.arr = Some(ArrayPush(unwrap(as_array_mut(self)), v))],
        ret |-> Ok(Unit)]

push(self, v) ==
  IF as_array_mut(self) = None THEN [self |-> self, ret |-> Err(NotAnArray)]
  ELSE [self |-> [self EXCEPT !.arr = Some(ArrayPush(unwrap(as_array_mut(self)), v))],
        ret |-> Ok(Unit)]

try_push(self, v) ==
  LET r == push(self, v) IN [self |-> r.self, ret |-> Unit]

\* pop that turns an array it has emptied into null
pop_collapsing(self) ==
  IF as_array_mut(self) = None THEN [self |-> self, ret |-> Err(NotAnArray)]
  ELSE LET r == ArrayPop(unwrap(as_array_mut(self)))
       IN  [self |-> IF r.arr = <<>> /\ r.ret # None THEN NullV
                     ELSE [self EXCEPT !.arr = Some(r.arr)],
            ret |-> Ok(r.ret)]

\* pop that reports an empty array as not an array
pop_empty_is_error(self) ==
  IF as_array_mut(self) = None THEN [self |-> self, ret |-> Err(NotAnArray)]
  ELSE LET r == ArrayPop(unwrap(as_array_mut(self)))
       IN  IF r.ret = None THEN [self |-> self, ret |-> Err(NotAnArray)]
           ELSE [self |-> [self EXCEPT !.arr = Some(r.arr)], ret |-> Ok(r.ret)]

pop(self) ==
  IF as_array_mut(self) = None THEN [self |-> self, ret |-> Err(NotAnArray)]
  ELSE LET r == ArrayPop(unwrap(as_array_mut(self)))
       IN  [self |-> [self EXCEPT !.arr = Some(r.arr)], ret |-> Ok(r.ret)]

try_pop(self) ==
  LET r == pop(self) IN [self |-> r.self, ret |-> ok_flatten(r.ret)]

\* get_mut that creates the entry it does not find
get_mut_or_insert(self, k) ==
  IF as_object_mut(self) = None THEN [self |-> self, ret |-> None]
  ELSE LET o == unwrap(as_object_mut(self))
       IN  IF k \in DOMAIN o THEN [self |-> self, ret |-> Some(o[k])]
           ELSE [self |-> [self EXCEPT !.obj = Some(ObjectInsert(o, k, NullV).obj)],
                 ret |-> Some(NullV)]

\* a mutable reference to the element: the value itself is left alone
get_mut(self, k) ==
  [self |-> self, ret |-> and_then(as_object_mut(self), LAMBDA m : ObjectGet(m, k))]

get_idx_mut(self, i) ==
  [self |-> self, ret |-> and_then(as_array_mut(self), LAMBDA a : ArrayGet(a, i))]

\* ------------------------------------------------------------------------
\* Bounds and inputs

\* longest array
MaxLen == 2

\* number of distinct keys in use
MaxKeys == 2

KeyNames == <<"a", "b", "c", "d">>

Keys == {KeyNames[n] : n \in 1..MaxKeys}

NoKey == ""

I64Samples ==
  {Bits(<<>>), Bits(<<1>>), Neg(<<1>>),
   Bits(Ones(7)), Bits(Pow2(7)), Neg(Pow2(7)), Neg(Pow2Plus1(7)),
   Bits(Ones(8)), Bits(Pow2(8)),
   Bits(Ones(15)), Bits(Pow2(15)), Neg(Pow2(15)), Neg(Pow2Plus1(15)),
   Bits(Ones(16)), Bits(Pow2(16)),
   Bits(Ones(31)), Bits(Pow2(31)), Neg(Pow2(31)), Neg(Pow2Plus1(31)),
   Bits(Ones(32)), Bits(Pow2(32)),
   Bits(Pow2Plus1(53)), Neg(Pow2Plus1(60)),
   Bits(Ones(63)), Neg(Pow2(63))}

U64Samples ==
  {Bits(<<>>), Bits(NatBits(200)),
   Bits(Ones(8)), Bits(Pow2(8)),
   Bits(Ones(16)), Bits(Pow2(16)),
   Bits(Ones(32)), Bits(Pow2(32)),
   Bits(Pow2Plus1(53)), Bits(Ones(55)),
   Bits(Ones(63)), Bits(Pow2(63)), Bits(Ones(64))}

F64Samples ==
  {Float(FALSE, <<>>, 0), Float(FALSE, <<1, 1>>, -1), Float(TRUE, <<1>>, 1),
   Float(FALSE, <<1>>, 200), NaN, Infinity}

Numbers ==
  {I64V(n, c) : n \in I64Samples, c \in BOOLEAN}
    \cup {U64V(n, c) : n \in U64Samples, c \in BOOLEAN}
    \cup {F64V(x) : x \in F64Samples}

Scalars == {NullV, BoolV(TRUE), BoolV(FALSE), StrV(""), StrV("a")} \cup Numbers

\* the values stored in arrays and objects
Elems == {NullV, U64V(Bits(NatBits(200)), TRUE), StrV("a")}

RECURSIVE SeqsUpTo(_, _)
SeqsUpTo(S, n) ==
  IF n = 0 THEN {<<>>}
  ELSE LET shorter == SeqsUpTo(S, n - 1)
       IN  shorter \cup {Append(q, x) : q \in shorter, x \in S}

Maps(K, S) == UNION {[D -> S] : D \in SUBSET K}

Values ==
  Scalars \cup {ArrayV(a) : a \in SeqsUpTo(Elems, MaxLen)}
          \cup {ObjectV(o) : o \in Maps(Keys, Elems)}

\* ------------------------------------------------------------------------
\* The state: the value a caller holds, the calls made on it (the last one
\* and, when that one followed a shape-checked mutation that returned Ok, that
\* mutation before it), and the pointer width of the build.

Call(op, k, ix, a, r) ==
  [op |-> op, key |-> k, idx |-> ix, arg |-> a, before |-> value, ret |-> r]

Committed(c) == c.op \in {"insert", "remove", "push", "pop"} /\ "ok" \in DOMAIN c.ret

Record(c) == IF hist # <<>> /\ Committed(hist[1]) THEN <<c, hist[1]>> ELSE <<c>>

Observe(op, k, ix, r) ==
  /\ hist' = Record(Call(op, k, ix, None, r))
  /\ UNCHANGED <<value, usize_bits>>

Mutate(op, k, ix, a, res) ==
  /\ value' = res.self
  /\ hist' = Record(Call(op, k, ix, a, res.ret))
  /\ UNCHANGED usize_bits

Fits(self) == IF as_array(self) = None THEN TRUE ELSE Len(unwrap(as_array(self))) < MaxLen

Init ==
  /\ value \in Values
  /\ hist = <<>>
  /\ usize_bits \in {32, 64}

Call_get == \E k \in Keys : Observe("get", k, 0, get(value, k))

Call_contains_key == \E k \in Keys : Observe("contains_key", k, 0, contains_key(value, k))

Call_get_idx == \E n \in 0..MaxLen : Observe("get_idx", NoKey, n, get_idx(value, n))

Call_as_i128 == Observe("as_i128", NoKey, 0, as_i128(value))

Call_as_i32 == Observe("as_i32", NoKey, 0, as_i32(value))

Call_as_i16 == Observe("as_i16", NoKey, 0, as_i16(value))

Call_as_i8 == Observe("as_i8", NoKey, 0, as_i8(value))

Call_as_u128 == Observe("as_u128", NoKey, 0, as_u128(value))

Call_as_usize == Observe("as_usize", NoKey, 0, as_usize(value))

Call_as_u32 == Observe("as_u32", NoKey, 0, as_u32(value))

Call_as_u16 == Observe("as_u16", NoKey, 0, as_u16(value))

Call_as_u8 == Observe("as_u8", NoKey, 0, as_u8(value))

Call_cast_f64 == Observe("cast_f64", NoKey, 0, cast_f64(value))

Call_is_float == Observe("is_float", NoKey, 0, is_float(value))

Call_is_integer == Observe("is_integer", NoKey, 0, is_integer(value))

Call_is_number == Observe("is_number", NoKey, 0, is_number(value))

Call_is_i128 == Observe("is_i128", NoKey, 0, is_i128(value))

Call_is_i64 == Observe("is_i64", NoKey, 0, is_i64(value))

Call_is_u128 == Observe("is_u128", NoKey, 0, is_u128(value))

Call_is_u64 == Observe("is_u64", NoKey, 0, is_u64(value))

Call_is_f64_castable == Observe("is_f64_castable", NoKey, 0, is_f64_castable(value))

Call_insert ==
  \E k \in Keys, v \in Elems : Mutate("insert", k, 0, Some(v), insert(value, k, v))

Call_try_insert ==
  \E k \in Keys, v \in Elems : Mutate("try_insert", k, 0, Some(v), try_insert(value, k, v))

Call_remove == \E k \in Keys : Mutate("remove", k, 0, None, remove(value, k))

Call_try_remove == \E k \in Keys : Mutate("try_remove", k, 0, None, try_remove(value, k))

Call_push ==
  /\ Fits(value)
  /\ \E v \in Elems : Mutate("push", NoKey, 0, Some(v), push(value, v))

Call_try_push ==
  /\ Fits(value)
  /\ \E v \in Elems : Mutate("try_push", NoKey, 0, Some(v), try_push(value, v))

Call_pop == Mutate("pop", NoKey, 0, None, pop(value))

Call_try_pop == Mutate("try_pop", NoKey, 0, None, try_pop(value))

Call_get_mut == \E k \in Keys : Mutate("get_mut", k, 0, None, get_mut(value, k))

Call_get_idx_mut ==
  \E n \in 0..MaxLen : Mutate("get_idx_mut", NoKey, n, None, get_idx_mut(value, n))

Next ==
  \/ Call_get
  \/ Call_contains_key
  \/ Call_get_idx
  \/ Call_as_i128
  \/ Call_as_i32
  \/ Call_as_i16
  \/ Call_as_i8
  \/ Call_as_u128
  \/ Call_as_usize
  \/ Call_as_u32
  \/ Call_as_u16
  \/ Call_as_u8
  \/ Call_cast_f64
  \/ Call_is_float
  \/ Call_is_integer
  \/ Call_is_number
  \/ Call_is_i128
  \/ Call_is_i64
  \/ Call_is_u128
  \/ Call_is_u64
  \/ Call_is_f64_castable
  \/ Call_insert
  \/ Call_try_insert
  \/ Call_remove
  \/ Call_try_remove
  \/ Call_push
  \/ Call_try_push
  \/ Call_pop
  \/ Call_try_pop
  \/ Call_get_mut
  \/ Call_get_idx_mut

Spec == Init /\ [][Next]_vars

\* ------------------------------------------------------------------------
\* The keyed and indexed accessors, on objects and arrays whose elements are
\* of every shape.

KeyedElems ==
  {BoolV(TRUE), I64V(Neg(Pow2Plus1(7)), FALSE), U64V(Bits(NatBits(200)), TRUE),
   U64V(Bits(Pow2(32)), TRUE), F64V(Float(FALSE, Pow2Plus1(24), 0)),
   F64V(Float(FALSE, <<1>>, 200)), StrV("a"), ArrayV(<<NullV>>),
   ObjectV([k \in {"a"} |-> NullV])}

KeyedValues ==
  {NullV, StrV("a"), U64V(Bits(NatBits(200)), TRUE)}
    \cup {ArrayV(a) : a \in SeqsUpTo(Elems \cup {ObjectV(<<>>)}, MaxLen)}
    \cup {ObjectV(o) : o \in Maps(Keys, KeyedElems)}

InitKeyed ==
  /\ value \in KeyedValues
  /\ hist = <<>>
  /\ usize_bits \in {32, 64}

Call_get_bool == \E k \in Keys : Observe("get_bool", k, 0, get_bool(value, k))

Call_get_i128 == \E k \in Keys : Observe("get_i128", k, 0, get_i128(value, k))

Call_get_i64 == \E k \in Keys : Observe("get_i64", k, 0, get_i64(value, k))

Call_get_i32 == \E k \in Keys : Observe("get_i32", k, 0, get_i32(value, k))

Call_get_i16 == \E k \in Keys : Observe("get_i16", k, 0, get_i16(value, k))

Call_get_i8 == \E k \in Keys : Observe("get_i8", k, 0, get_i8(value, k))

Call_get_u128 == \E k \in Keys : Observe("get_u128", k, 0, get_u128(value, k))

Call_get_u64 == \E k \in Keys : Observe("get_u64", k, 0, get_u64(value, k))

Call_get_usize == \E k \in Keys : Observe("get_usize", k, 0, get_usize(value, k))

Call_get_u32 == \E k \in Keys : Observe("get_u32", k, 0, get_u32(value, k))

Call_get_u16 == \E k \in Keys : Observe("get_u16", k, 0, get_u16(value, k))

Call_get_u8 == \E k \in Keys : Observe("get_u8", k, 0, get_u8(value, k))

Call_get_f64 == \E k \in Keys : Observe("get_f64", k, 0, get_f64(value, k))

Call_get_f32 == \E k \in Keys : Observe("get_f32", k, 0, get_f32(value, k))

Call_get_str == \E k \in Keys : Observe("get_str", k, 0, get_str(value, k))

Call_get_array == \E k \in Keys : Observe("get_array", k, 0, get_array(value, k))

Call_get_object == \E k \in Keys : Observe("get_object", k, 0, get_object(value, k))

NextKeyed ==
  \/ Call_get
  \/ Call_get_idx
  \/ Call_get_bool
  \/ Call_get_i128
  \/ Call_get_i64
  \/ Call_get_i32
  \/ Call_get_i16
  \/ Call_get_i8
  \/ Call_get_u128
  \/ Call_get_u64
  \/ Call_get_usize
  \/ Call_get_u32
  \/ Call_get_u16
  \/ Call_get_u8
  \/ Call_get_f64
  \/ Call_get_f32
  \/ Call_get_str
  \/ Call_get_array
  \/ Call_get_object

SpecKeyed == InitKeyed /\ [][NextKeyed]_vars

\* ------------------------------------------------------------------------
\* Properties

\* whether a call was made, and the last call
Called == hist # <<>>

Last == hist[1]

\* whether the last call came right after a shape-checked mutation that returned Ok
Followed == Len(hist) = 2

Prev == hist[2]

\* C1: on a value that is not an object, insert(k, v) and remove(k) return
\* Err(AccessError::NotAnObject) and leave the value as it was.
C1_NotAnObjectNoMutation ==
  (Called /\ Last.op \in {"insert", "remove"} /\ ~is_object(Last.before))
    => (Last.ret = Err(NotAnObject) /\ value = Last.before)

C1_Witness ==
  /\ Called
  /\ Last.op = "insert"
  /\ is_array(Last.before)
  /\ unwrap(as_array(Last.before)) # <<>>
  /\ Last.ret = Err(NotAnObject)

\* C2: on a value that is not an array, push(v) and pop() return
\* Err(AccessError::NotAnArray) and leave the value as it was.
C2_NotAnArrayNoMutation ==
  (Called /\ Last.op \in {"push", "pop"} /\ ~is_array(Last.before))
    => (Last.ret = Err(NotAnArray) /\ value = Last.before)

C2_Witness ==
  /\ Called
  /\ Last.op = "push"
  /\ is_object(Last.before)
  /\ DOMAIN unwrap(as_object(Last.before)) # {}
  /\ Last.ret = Err(NotAnArray)

\* the integer type a narrowing or widening extractor targets
TargetOf(op) ==
  CASE op = "as_i128" -> "i128" [] op = "as_i32" -> "i32" [] op = "as_i16" -> "i16"
    [] op = "as_i8" -> "i8" [] op = "as_u128" -> "u128" [] op = "as_usize" -> "usize"
    [] op = "as_u32" -> "u32" [] op = "as_u16" -> "u16" [] op = "as_u8" -> "u8"

\* the 64-bit primitive an extractor of that signedness starts from
Primitive(self, ty) == IF Signed(ty) THEN as_i64(self) ELSE as_u64(self)

\* n lies in the range of ty, by the number of bits of its magnitude: a signed
\* type of w bits holds -2^(w-1) .. 2^(w-1) - 1, an unsigned one 0 .. 2^w - 1
Representable(n, ty) ==
  LET w == Width(ty)
  IN  IF Signed(ty)
      THEN Len(n.mag) < w \/ (n.neg /\ n.mag = Pow2(w - 1))
      ELSE ~n.neg /\ Len(n.mag) <= w

NarrowOps == {"as_i32", "as_i16", "as_i8", "as_u32", "as_u16", "as_u8", "as_usize"}

\* C3: as_i32, as_i16, as_i8 (as_u32, as_u16, as_u8, as_usize) return Some(n)
\* exactly when as_i64 (as_u64) returns Some(n) and n lies in the range of the
\* target type, with the same number n, and None in every other case.
C3_CheckedNarrowing ==
  (Called /\ Last.op \in NarrowOps)
    => LET ty == TargetOf(Last.op)
           wide == Primitive(Last.before, ty)
       IN  Last.ret = IF is_some(wide) /\ Representable(unwrap(wide), ty)
                      THEN Some(unwrap(wide))
                      ELSE None

\* as_i8 refuses 128, which it would wrap to -128
C3_Witness ==
  /\ Called
  /\ Last.op = "as_i8"
  /\ as_i64(Last.before) = Some(Bits(Pow2(7)))
  /\ Last.ret = None

\* C8: as_i128 returns Some(n) exactly when as_i64 returns Some(n), as_u128
\* exactly when as_u64 does, with the same number n.
C8_LosslessWidening ==
  /\ (Called /\ Last.op = "as_i128") => Last.ret = as_i64(Last.before)
  /\ (Called /\ Last.op = "as_u128") => Last.ret = as_u64(Last.before)

\* as_u128 of u64::MAX, which has no signed form
C8_Witness ==
  /\ Called
  /\ Last.op = "as_u128"
  /\ as_i64(Last.before) = None
  /\ Last.ret = Some(Bits(Ones(64)))

\* C9: is_integer = is_i128 || is_u128 = is_i64 || is_u64, and is_number =
\* is_float || is_integer: true exactly when one of as_f64, as_i64, as_u64 is
\* present.
C9_NumberIsUnion ==
  /\ (Called /\ Last.op = "is_i128") => Last.ret = is_some(as_i64(Last.before))
  /\ (Called /\ Last.op = "is_u128") => Last.ret = is_some(as_u64(Last.before))
  /\ (Called /\ Last.op = "is_i64") => Last.ret = is_some(as_i64(Last.before))
  /\ (Called /\ Last.op = "is_u64") => Last.ret = is_some(as_u64(Last.before))
  /\ (Called /\ Last.op = "is_float") => Last.ret = is_some(as_f64(Last.before))
  /\ (Called /\ Last.op = "is_integer")
       => /\ Last.ret = (is_i128(Last.before) \/ is_u128(Last.before))
          /\ Last.ret = (is_i64(Last.before) \/ is_u64(Last.before))
  /\ (Called /\ Last.op = "is_number")
       => /\ Last.ret = (is_float(Last.before) \/ is_integer(Last.before))
          /\ Last.ret = (\/ is_some(as_f64(Last.before))
                         \/ is_some(as_i64(Last.before))
                         \/ is_some(as_u64(Last.before)))

\* an unsigned integer beyond i64::MAX is a number through as_u64 alone
C9_Witness ==
  /\ Called
  /\ Last.op = "is_number"
  /\ as_f64(Last.before) = None
  /\ as_i64(Last.before) = None
  /\ is_some(as_u64(Last.before))
  /\ Last.ret = TRUE

\* m * 2^e as a magnitude, e >= 0
Scaled(m, e) == IF m = <<>> THEN <<>> ELSE [n \in 1..e |-> 0] \o m

\* x is the float of the integer n: the same sign, and the same magnitude
\* when n has at most 53 significant bits
FloatOf(x, n) ==
  /\ x = IntToF64(n)
  /\ x.cls = "fin"
  /\ x.neg = n.neg
  /\ Len(n.mag) <= Mantissa => (x.e >= 0 /\ Scaled(x.m, x.e) = n.mag)

\* C10: cast_f64 returns as_f64 unchanged when present, otherwise the unsigned
\* integer form as a float, otherwise the signed integer form as a float, and
\* None only when none of the three is present; is_f64_castable = is_number.
C10_CastOrder ==
  /\ (Called /\ Last.op = "cast_f64")
       => LET v == Last.before
          IN  IF is_some(as_f64(v)) THEN Last.ret = as_f64(v)
              ELSE IF is_some(as_u64(v))
                THEN is_some(Last.ret) /\ FloatOf(unwrap(Last.ret), unwrap(as_u64(v)))
              ELSE IF is_some(as_i64(v))
                THEN is_some(Last.ret) /\ FloatOf(unwrap(Last.ret), unwrap(as_i64(v)))
              ELSE Last.ret = None
  /\ (Called /\ Last.op = "is_f64_castable") => Last.ret = is_number(Last.before)

\* u64::MAX, with no float and no signed form, is cast to 2^64
C10_Witness ==
  /\ Called
  /\ Last.op = "cast_f64"
  /\ as_f64(Last.before) = None
  /\ as_i64(Last.before) = None
  /\ as_u64(Last.before) = Some(Bits(Ones(64)))
  /\ Last.ret = Some(Float(FALSE, <<1>>, 64))

\* the elements of an array value, the entries of an object value
Elements(self) == unwrap(as_array(self))

Entries(self) == unwrap(as_object(self))

\* C4: on an array, push(x) returns Ok(()) and a pop() right after it returns
\* Ok(Some(x)) and leaves the elements as they were before the push; pop() on
\* an empty array returns Ok(None) and leaves it empty.
C4_PushPopRoundTrip ==
  /\ (Called /\ Last.op = "push" /\ is_array(Last.before))
       => /\ Last.ret = Ok(Unit)
          /\ is_array(value)
          /\ Elements(value) = Elements(Last.before) \o <<unwrap(Last.arg)>>
  /\ (Followed /\ Prev.op = "push" /\ Last.op = "pop")
       => /\ Last.ret = Ok(Some(unwrap(Prev.arg)))
          /\ is_array(value)
          /\ Elements(value) = Elements(Prev.before)
  /\ (Called /\ Last.op = "pop" /\ is_array(Last.before) /\ Elements(Last.before) = <<>>)
       => /\ Last.ret = Ok(None)
          /\ is_array(value)
          /\ Elements(value) = <<>>

\* a push onto a non-empty array, then the pop that hands the element back
C4_Witness ==
  /\ Followed
  /\ Prev.op = "push"
  /\ Elements(Prev.before) # <<>>
  /\ Last.op = "pop"
  /\ Last.ret = Ok(Prev.arg)
  /\ value = Prev.before

\* C5: on an object holding k -> v, remove(k) returns Ok(Some(v)) and deletes
\* that entry only; a second remove(k) right after it returns Ok(None) and
\* changes nothing.
C5_RemoveOnce ==
  /\ (Called /\ Last.op = "remove" /\ is_object(Last.before)
        /\ Last.key \in DOMAIN Entries(Last.before))
       => /\ Last.ret = Ok(Some(Entries(Last.before)[Last.key]))
          /\ is_object(value)
          /\ DOMAIN Entries(value) = DOMAIN Entries(Last.before) \ {Last.key}
          /\ \A k \in DOMAIN Entries(value) : Entries(value)[k] = Entries(Last.before)[k]
  /\ (Followed /\ Prev.op = "remove" /\ Last.op = "remove" /\ Last.key = Prev.key)
       => /\ Last.ret = Ok(None)
          /\ value = Last.before

\* the stored value is handed out by the first remove and not by the second
C5_Witness ==
  /\ Followed
  /\ Prev.op = "remove"
  /\ Prev.key \in DOMAIN Entries(Prev.before)
  /\ Prev.ret = Ok(Some(Entries(Prev.before)[Prev.key]))
  /\ Last.op = "remove"
  /\ Last.key = Prev.key
  /\ Last.ret = Ok(None)
  /\ DOMAIN Entries(value) # {}

\* C6: on an object, insert(k, v) returns Ok(Some(old)) when k was mapped to
\* old and Ok(None) when k was absent; afterwards get(k) returns v and every
\* other key maps to what it mapped to before.
C6_InsertLikeHashMap ==
  (Called /\ Last.op = "insert" /\ is_object(Last.before))
    => LET old == Entries(Last.before)
       IN  /\ Last.ret = Ok(IF Last.key \in DOMAIN old THEN Some(old[Last.key]) ELSE None)
           /\ is_object(value)
           /\ get(value, Last.key) = Last.arg
           /\ DOMAIN Entries(value) = DOMAIN old \cup {Last.key}
           /\ \A k \in DOMAIN old \ {Last.key} : get(value, k) = Some(old[k])

\* an insert that replaces a different value, beside another entry
C6_Witness ==
  /\ Called
  /\ Last.op = "insert"
  /\ is_object(Last.before)
  /\ Last.key \in DOMAIN Entries(Last.before)
  /\ Some(Entries(Last.before)[Last.key]) # Last.arg
  /\ Last.ret = Ok(Some(Entries(Last.before)[Last.key]))
  /\ get(value, Last.key) = Last.arg
  /\ DOMAIN Entries(value) # {Last.key}

\* whether the value is an object that holds the key
Holds(self, k) == self.obj # None /\ k \in DOMAIN self.obj[1]

\* C7: contains_key(k) is true exactly when get(k) is present; get(k) and
\* get_mut(k) return None and leave the value alone when the value is an
\* object without k or no object at all.
C7_LookupAbsent ==
  /\ (Called /\ Last.op = "contains_key")
       => /\ Last.ret = is_some(get(Last.before, Last.key))
          /\ Last.ret = Holds(Last.before, Last.key)
  /\ (Called /\ Last.op \in {"get", "get_mut"})
       => /\ value = Last.before
          /\ Last.ret = IF Holds(Last.before, Last.key)
                        THEN Some(Last.before.obj[1][Last.key])
                        ELSE None

\* get_mut of a key the object lacks, beside one it holds
C7_Witness ==
  /\ Called
  /\ Last.op = "get_mut"
  /\ is_object(Last.before)
  /\ Entries(Last.before) # <<>>
  /\ ~Holds(Last.before, Last.key)
  /\ Last.ret = None
  /\ value = Last.before

\* C11: on a value of the wrong shape try_insert, try_remove and try_pop
\* return None, try_push returns nothing, and the value is left as it was; on
\* a value of the right shape each does the mutation of insert, remove, pop or
\* push and returns the Option that form returns inside Ok.
C11_TryFormsSwallowShapeError ==
  /\ (Called /\ Last.op \in {"try_insert", "try_remove"} /\ ~is_object(Last.before))
       => (Last.ret = None /\ value = Last.before)
  /\ (Called /\ Last.op = "try_pop" /\ ~is_array(Last.before))
       => (Last.ret = None /\ value = Last.before)
  /\ (Called /\ Last.op = "try_push" /\ ~is_array(Last.before))
       => (Last.ret = Unit /\ value = Last.before)
  /\ (Called /\ Last.op = "try_insert" /\ is_object(Last.before))
       => LET old == Entries(Last.before)
              checked == insert(Last.before, Last.key, unwrap(Last.arg))
          IN  /\ Last.ret = IF Last.key \in DOMAIN old THEN Some(old[Last.key]) ELSE None
              /\ Ok(Last.ret) = checked.ret
              /\ value = checked.self
              /\ is_object(value)
              /\ DOMAIN Entries(value) = DOMAIN old \cup {Last.key}
              /\ Some(Entries(value)[Last.key]) = Last.arg
              /\ \A k \in DOMAIN old \ {Last.key} : Entries(value)[k] = old[k]
  /\ (Called /\ Last.op = "try_remove" /\ is_object(Last.before))
       => LET old == Entries(Last.before)
              checked == remove(Last.before, Last.key)
          IN  /\ Last.ret = IF Last.key \in DOMAIN old THEN Some(old[Last.key]) ELSE None
              /\ Ok(Last.ret) = checked.ret
              /\ value = checked.self
              /\ is_object(value)
              /\ DOMAIN Entries(value) = DOMAIN old \ {Last.key}
              /\ \A k \in DOMAIN Entries(value) : Entries(value)[k] = old[k]
  /\ (Called /\ Last.op = "try_push" /\ is_array(Last.before))
       => /\ Last.ret = Unit
          /\ value = push(Last.before, unwrap(Last.arg)).self
          /\ is_array(value)
          /\ Elements(value) = Elements(Last.before) \o <<unwrap(Last.arg)>>
  /\ (Called /\ Last.op = "try_pop" /\ is_array(Last.before))
       => LET old == Elements(Last.before)
              checked == pop(Last.before)
          IN  /\ Last.ret = IF old = <<>> THEN None ELSE Some(old[Len(old)])
              /\ Ok(Last.ret) = checked.ret
              /\ value = checked.self
              /\ is_array(value)
              /\ Elements(value) = IF old = <<>> THEN <<>> ELSE SubSeq(old, 1, Len(old) - 1)

\* try_insert over an entry of an object hands back the entry it replaced
C11_Witness ==
  /\ Called
  /\ Last.op = "try_insert"
  /\ is_object(Last.before)
  /\ Last.key \in DOMAIN Entries(Last.before)
  /\ Last.ret = Some(Entries(Last.before)[Last.key])
  /\ Last.ret # Last.arg
  /\ Some(Entries(value)[Last.key]) = Last.arg

\* try_pop on an object: the shape error is swallowed
C11_WitnessWrongShape ==
  /\ Called
  /\ Last.op = "try_pop"
  /\ is_object(Last.before)
  /\ Entries(Last.before) # <<>>
  /\ Last.ret = None
  /\ value = Last.before

\* the typed extractor a keyed accessor applies to the element it finds
Extractor(op, x) ==
  CASE op = "get_bool" -> as_bool(x) [] op = "get_i128" -> as_i128(x)
    [] op = "get_i64" -> as_i64(x) [] op = "get_i32" -> as_i32(x)
    [] op = "get_i16" -> as_i16(x) [] op = "get_i8" -> as_i8(x)
    [] op = "get_u128" -> as_u128(x) [] op = "get_u64" -> as_u64(x)
    [] op = "get_usize" -> as_usize(x) [] op = "get_u32" -> as_u32(x)
    [] op = "get_u16" -> as_u16(x) [] op = "get_u8" -> as_u8(x)
    [] op = "get_f64" -> as_f64(x) [] op = "get_f32" -> as_f32(x)
    [] op = "get_str" -> as_str(x) [] op = "get_array" -> as_array(x)
    [] op = "get_object" -> as_object(x)

KeyedOps ==
  {"get_bool", "get_i128", "get_i64", "get_i32", "get_i16", "get_i8", "get_u128",
   "get_u64", "get_usize", "get_u32", "get_u16", "get_u8", "get_f64", "get_f32",
   "get_str", "get_array", "get_object"}

\* C12: every keyed accessor get_X(k) returns what as_X returns on the element
\* found by get(k), and None when the value is no object, when k is missing or
\* when as_X of the element is absent; get_idx(i) returns the element at
\* position i of an array, and None for a non-array or an index out of range.
C12_KeyedAccessors ==
  /\ (Called /\ Last.op \in KeyedOps)
       => /\ Last.ret = IF Holds(Last.before, Last.key)
                        THEN Extractor(Last.op, Last.before.obj[1][Last.key])
                        ELSE None
          /\ get(Last.before, Last.key) = None => Last.ret = None
          /\ value = Last.before
  /\ (Called /\ Last.op = "get")
       => Last.ret = IF Holds(Last.before, Last.key)
                     THEN Some(Last.before.obj[1][Last.key])
                     ELSE None
  /\ (Called /\ Last.op = "get_idx")
       => /\ Last.ret = IF Last.before.arr # None /\ Last.idx < Len(Last.before.arr[1])
                        THEN Some(Last.before.arr[1][Last.idx + 1])
                        ELSE None
          /\ value = Last.before

\* get_i32 of an entry that holds 2^32: found, an i64, and no i32
C12_Witness ==
  /\ Called
  /\ Last.op = "get_i32"
  /\ Holds(Last.before, Last.key)
  /\ as_i64(Entries(Last.before)[Last.key]) = Some(Bits(Pow2(32)))
  /\ Last.ret = None

\* get_u8 of an entry that holds 200, beside an entry of another shape
C12_WitnessPresent ==
  /\ Called
  /\ Last.op = "get_u8"
  /\ Holds(Last.before, Last.key)
  /\ Last.ret = Some(Bits(NatBits(200)))
  /\ \E k \in DOMAIN Entries(Last.before) : is_some(as_str(Entries(Last.before)[k]))

\* the shape of a value: its type, and whether it is an array or an object
Shape(self) == <<value_type(self), is_array(self), is_object(self)>>

\* C13: no call of insert, remove, push, pop, try_insert, try_remove, try_push
\* or try_pop, successful or failing, changes the shape of the value: an
\* object stays an object, an array an array (also when emptied), and a scalar
\* or null value stays the value it was.
C13_ShapePreserved ==
  [][/\ Shape(value') = Shape(value)
     /\ (~is_array(value) /\ ~is_object(value)) => value' = value]_vars

\* an array of one element emptied by pop, and still an array
C13_Witness ==
  /\ Called
  /\ Last.op = "pop"
  /\ is_array(Last.before)
  /\ Len(Elements(Last.before)) = 1
  /\ Last.ret = Ok(Some(Elements(Last.before)[1]))
  /\ value_type(value) = "Array"
  /\ as_array(value) = Some(<<>>)

\* an object of one entry emptied by try_remove, and still an object
C13_WitnessObject ==
  /\ Called
  /\ Last.op = "try_remove"
  /\ is_object(Last.before)
  /\ DOMAIN Entries(Last.before) = {Last.key}
  /\ value_type(value) = "Object"
  /\ as_object(value) = Some(<<>>)

====
